---------------------------- MODULE Spec2Model ----------------------------
(***************************************************************************)
(* Crop generation of the Blender verifier (verifier_tools/crop_generator). *)
(*                                                                         *)
(* A SubImage is built from a Region of Python floats (doubles) and a frame *)
(* resolution; a Crop is then sampled from it by the legacy sampler        *)
(* generate_single_random_crop_data_old or by the fraction-space sampler   *)
(* generate_single_random_crop_data.  Python float arithmetic is IEEE-754   *)
(* double precision and numpy.float32 arithmetic is single precision; both *)
(* are modelled exactly: a number is a sign, an arbitrary-precision        *)
(* mantissa and a binary exponent, and every operation rounds its exact    *)
(* result to 53 or 24 bits, ties to even.                                  *)
(***************************************************************************)
EXTENDS Integers, Sequences, FiniteSets, TLC

(***************************************************************************)
(* Natural numbers of any size: little-endian sequences of 15-bit limbs     *)
(* without leading zero limbs (<<>> is 0).                                  *)
(***************************************************************************)
Base == 2^15

RECURSIVE BNorm(_)
BNorm(a) ==
    IF a = <<>> THEN <<>>
    ELSE IF a[Len(a)] = 0 THEN BNorm(SubSeq(a, 1, Len(a) - 1))
    ELSE a

RECURSIVE BFromNat(_)
BFromNat(n) == IF n = 0 THEN <<>> ELSE <<n % Base>> \o BFromNat(n \div Base)

RECURSIVE BToNat(_)
BToNat(a) == IF a = <<>> THEN 0 ELSE a[1] + Base * BToNat(Tail(a))

BHead(a) == IF a = <<>> THEN 0 ELSE a[1]

BTail(a) == IF a = <<>> THEN <<>> ELSE Tail(a)

RECURSIVE BAddC(_, _, _)
BAddC(a, b, c) ==
    IF a = <<>> /\ b = <<>> THEN (IF c = 0 THEN <<>> ELSE <<c>>)
    ELSE LET s == BHead(a) + BHead(b) + c
         IN  <<s % Base>> \o BAddC(BTail(a), BTail(b), s \div Base)

BAdd(a, b) == BAddC(a, b, 0)

RECURSIVE BSubC(_, _, _)
BSubC(a, b, c) ==
    IF a = <<>> THEN <<>>
    ELSE LET d == a[1] - BHead(b) - c
         IN  IF d < 0 THEN <<d + Base>> \o BSubC(Tail(a), BTail(b), 1)
             ELSE <<d>> \o BSubC(Tail(a), BTail(b), 0)

\* a - b for a >= b
BSub(a, b) == BNorm(BSubC(a, b, 0))

RECURSIVE BCmpEq(_, _, _)
BCmpEq(a, b, i) ==
    IF i = 0 THEN 0
    ELSE IF a[i] < b[i] THEN -1
    ELSE IF a[i] > b[i] THEN 1
    ELSE BCmpEq(a, b, i - 1)

\* -1, 0 or 1 as a < b, a = b or a > b
BCmp(a, b) ==
    IF Len(a) < Len(b) THEN -1
    ELSE IF Len(a) > Len(b) THEN 1
    ELSE BCmpEq(a, b, Len(a))

RECURSIVE BMulSmallC(_, _, _)
BMulSmallC(a, n, c) ==
    IF a = <<>> THEN (IF c = 0 THEN <<>> ELSE <<c>>)
    ELSE LET p == a[1] * n + c
         IN  <<p % Base>> \o BMulSmallC(Tail(a), n, p \div Base)

\* a * n for 0 <= n < Base
BMulSmall(a, n) == IF n = 0 THEN <<>> ELSE BMulSmallC(a, n, 0)

RECURSIVE BMul(_, _)
BMul(a, b) ==
    IF a = <<>> \/ b = <<>> THEN <<>>
    ELSE BAdd(BMulSmall(a, b[1]), BNorm(<<0>> \o BMul(a, Tail(b))))

RECURSIVE Zeros(_)
Zeros(n) == IF n = 0 THEN <<>> ELSE <<0>> \o Zeros(n - 1)

\* a * 2^k
BShl(a, k) ==
    IF a = <<>> THEN <<>>
    ELSE Zeros(k \div 15) \o BMulSmall(a, 2^(k % 15))

RECURSIVE BDivRem(_, _)
\* quotient and remainder of a by n, 1 <= n <= Base
BDivRem(a, n) ==
    IF a = <<>> THEN [q |-> <<>>, r |-> 0]
    ELSE LET hi  == BDivRem(Tail(a), n)
             cur == hi.r * Base + a[1]
         IN  [q |-> <<cur \div n>> \o hi.q, r |-> cur % n]

BDrop(a, n) == IF n >= Len(a) THEN <<>> ELSE SubSeq(a, n + 1, Len(a))

\* floor(a / 2^k)
BShr(a, k) == BNorm(BDivRem(BDrop(a, k \div 15), 2^(k % 15)).q)

RECURSIVE BitLenSmall(_)
BitLenSmall(n) == IF n = 0 THEN 0 ELSE 1 + BitLenSmall(n \div 2)

BBitLen(a) == IF a = <<>> THEN 0 ELSE 15 * (Len(a) - 1) + BitLenSmall(a[Len(a)])

BIsOdd(a) == a # <<>> /\ a[1] % 2 = 1

(***************************************************************************)
(* Binary floating-point values: (-1)^neg * m * 2^e, kept canonical (m odd, *)
(* or m = 0 with e = 0 and neg = FALSE) so that equal values are equal      *)
(* records.                                                                *)
(***************************************************************************)
FZero == [neg |-> FALSE, m |-> <<>>, e |-> 0]

RECURSIVE TrailingZerosSmall(_)
TrailingZerosSmall(n) == IF n % 2 = 1 THEN 0 ELSE 1 + TrailingZerosSmall(n \div 2)

RECURSIVE BTrailingZeros(_)
BTrailingZeros(a) ==
    IF a[1] = 0 THEN 15 + BTrailingZeros(Tail(a)) ELSE TrailingZerosSmall(a[1])

Canon(x) ==
    IF x.m = <<>> THEN FZero
    ELSE LET z == BTrailingZeros(x.m)
         IN  [neg |-> x.neg, m |-> BShr(x.m, z), e |-> x.e + z]

FromInt(n) ==
    IF n < 0 THEN Canon([neg |-> TRUE, m |-> BFromNat(-n), e |-> 0])
    ELSE Canon([neg |-> FALSE, m |-> BFromNat(n), e |-> 0])

FNeg(x) == IF x.m = <<>> THEN x ELSE [x EXCEPT !.neg = ~x.neg]

\* the exact product
FMulExact(x, y) ==
    Canon([neg |-> x.neg # y.neg, m |-> BMul(x.m, y.m), e |-> x.e + y.e])

\* the exact sum
FAddExact(x, y) ==
    LET e  == IF x.e < y.e THEN x.e ELSE y.e
        mx == BShl(x.m, x.e - e)
        my == BShl(y.m, y.e - e)
        c  == BCmp(mx, my)
    IN  IF x.neg = y.neg THEN Canon([neg |-> x.neg, m |-> BAdd(mx, my), e |-> e])
        ELSE IF c = 0 THEN FZero
        ELSE IF c > 0 THEN Canon([neg |-> x.neg, m |-> BSub(mx, my), e |-> e])
        ELSE Canon([neg |-> y.neg, m |-> BSub(my, mx), e |-> e])

FSubExact(x, y) == FAddExact(x, FNeg(y))

\* -1, 0 or 1 as x < y, x = y or x > y
FCmp(x, y) ==
    LET d == FSubExact(x, y)
    IN  IF d.m = <<>> THEN 0 ELSE IF d.neg THEN -1 ELSE 1

FLt(x, y) == FCmp(x, y) < 0

FLe(x, y) == FCmp(x, y) <= 0

\* x rounded to a mantissa of p bits, ties to even
RoundTo(x, p) ==
    LET len == BBitLen(x.m)
    IN  IF len <= p THEN x
        ELSE LET k    == len - p
                 q    == BShr(x.m, k)
                 rem  == BSub(x.m, BShl(q, k))
                 c    == BCmp(rem, BShl(<<1>>, k - 1))
                 up   == c > 0 \/ (c = 0 /\ BIsOdd(q))
             IN  Canon([neg |-> x.neg,
                        m   |-> IF up THEN BAdd(q, <<1>>) ELSE q,
                        e   |-> x.e + k])

\* x / n for an integer 1 <= n <= Base, rounded to p bits
RoundDiv(x, n, p) ==
    IF x.m = <<>> THEN FZero
    ELSE LET s  == p + 17
             d  == BDivRem(BShl(x.m, s), n)
             q2 == BMulSmall(BNorm(d.q), 2)
             m  == IF d.r = 0 THEN q2 ELSE BAdd(q2, <<1>>)
         IN  RoundTo(Canon([neg |-> x.neg, m |-> m, e |-> x.e - s - 1]), p)

\* math.floor
Floor(x) ==
    IF x.e >= 0 THEN (IF x.neg THEN -1 ELSE 1) * BToNat(BShl(x.m, x.e))
    ELSE LET q == BToNat(BShr(x.m, -x.e))
         IN  IF x.neg THEN -(q + 1) ELSE q

\* int(): truncation toward zero
Trunc(x) ==
    IF x.e >= 0 THEN (IF x.neg THEN -1 ELSE 1) * BToNat(BShl(x.m, x.e))
    ELSE LET q == BToNat(BShr(x.m, -x.e))
         IN  IF x.neg THEN -q ELSE q

\* the nearest integer, ties to even
RoundToInt(x) ==
    IF x.e >= 0 THEN (IF x.neg THEN -1 ELSE 1) * BToNat(BShl(x.m, x.e))
    ELSE LET k   == -x.e
             q   == BShr(x.m, k)
             rem == BSub(x.m, BShl(q, k))
             c   == BCmp(rem, BShl(<<1>>, k - 1))
             n   == BToNat(q) + (IF c > 0 \/ (c = 0 /\ BIsOdd(q)) THEN 1 ELSE 0)
         IN  IF x.neg THEN -n ELSE n

(***************************************************************************)
(* Python floats (IEEE-754 doubles), numpy.float32 values and the Python    *)
(* built-ins the samplers use.                                              *)
(***************************************************************************)
\* k / 100 for the ints k the model meets, computed once
Over100 == [k \in -200 .. 200 |-> RoundDiv(FromInt(k), 100, 53)]

\* the Python float written k/100 in decimal (0.29 is PyFloat(29)); also the
\* result of the true division k / 100 of two ints, which rounds once
PyFloat(k) ==
    IF k \in DOMAIN Over100 THEN Over100[k] ELSE RoundDiv(FromInt(k), 100, 53)

Hundred == FromInt(100)

Eight == FromInt(8)

DAdd(x, y) == RoundTo(FAddExact(x, y), 53)

DSub(x, y) == RoundTo(FSubExact(x, y), 53)

DMul(x, y) == RoundTo(FMulExact(x, y), 53)

\* round(x, 2): the decimal with two places nearest to the exact value of x
\* (ties to even), read back as a float
PyRound2(x) == PyFloat(RoundToInt(FMulExact(x, Hundred)))

\* numpy.float32(x)
F32(x) == RoundTo(x, 24)

F32Mul(x, y) == RoundTo(FMulExact(x, y), 24)

F32Add(x, y) == RoundTo(FAddExact(x, y), 24)

\* x / numpy.float32(n) in single precision, n a positive int
F32DivInt(x, n) == RoundDiv(x, n, 24)

(***************************************************************************)
(* Region, PixelRegion and SubImage.                                        *)
(***************************************************************************)
Region(left, top, right, bottom) ==
    [left |-> left, right |-> right, top |-> top, bottom |-> bottom]

PixelRegion(left, top, right, bottom) ==
    [left |-> left, right |-> right, top |-> top, bottom |-> bottom]

PIXEL_OFFSET == F32(PyFloat(50))

MIN_CROP_SIZE == 8

CROP_RELATIVE_SIZE == PyFloat(10)

\* math.floor(numpy.float32(value) * numpy.float32(side) + PIXEL_OFFSET)
ToPixel(value, side) ==
    Floor(F32Add(F32Mul(F32(value), F32(FromInt(side))), PIXEL_OFFSET))

\* calculate_pixels without the exchange of top and bottom
calculate_pixels_unswapped(region, width, height) ==
    PixelRegion(ToPixel(region.left, width),
                ToPixel(region.top, height),
                ToPixel(region.right, width),
                ToPixel(region.bottom, height))

\* the pixel top is computed from region.bottom and the pixel bottom from
\* region.top
calculate_pixels(region, width, height) ==
    PixelRegion(ToPixel(region.left, width),
                ToPixel(region.bottom, height),
                ToPixel(region.right, width),
                ToPixel(region.top, height))

SubImage(region, resolution) ==
    LET pixel_region == calculate_pixels(region, resolution[1], resolution[2])
    IN  [region       |-> region,
         pixel_region |-> pixel_region,
         width        |-> pixel_region.right - pixel_region.left,
         height       |-> pixel_region.top - pixel_region.bottom,
         resolution   |-> resolution]

\* the float infinity
Inf == "inf"

\* __calculate_crop_side_length without the minimum
calculate_crop_side_length_no_minimum(subtask_side_length) ==
    Trunc(DMul(CROP_RELATIVE_SIZE, FromInt(subtask_side_length)))

\* max(MIN_CROP_SIZE, int(CROP_RELATIVE_SIZE * subtask_side_length))
calculate_crop_side_length(subtask_side_length) ==
    LET calculated_length ==
            Trunc(DMul(CROP_RELATIVE_SIZE, FromInt(subtask_side_length)))
    IN  IF calculated_length > MIN_CROP_SIZE THEN calculated_length
        ELSE MIN_CROP_SIZE

get_default_crop_size(subimage_) ==
    <<calculate_crop_side_length(subimage_.width),
      calculate_crop_side_length(subimage_.height)>>

\* numpy.float32((numpy.float32(pixel) + PIXEL_OFFSET) / numpy.float32(side));
\* pixel + 0.5 is never 0, and numpy's division by zero gives an infinity
ToBorder(pixel, side) ==
    IF side = 0 THEN Inf
    ELSE F32DivInt(F32Add(F32(FromInt(pixel)), PIXEL_OFFSET), side)

\* calculate_borders without the exchange of top and bottom
calculate_borders_unswapped(pixel_region, width, height) ==
    Region(ToBorder(pixel_region.left, width),
           ToBorder(pixel_region.top, height),
           ToBorder(pixel_region.right, width),
           ToBorder(pixel_region.bottom, height))

\* the region's top is computed from the pixel bottom and the region's bottom
\* from the pixel top
calculate_borders(pixel_region, width, height) ==
    Region(ToBorder(pixel_region.left, width),
           ToBorder(pixel_region.bottom, height),
           ToBorder(pixel_region.right, width),
           ToBorder(pixel_region.top, height))

\* a Crop; its subimage is the SubImage it was sampled from (the variable
\* subimage below)
Crop(pixel_region, crop_region) ==
    [pixel_region |-> pixel_region, crop_region |-> crop_region]

create_from_pixel_region(pixel_region, subimage_) ==
    Crop(pixel_region,
         calculate_borders(pixel_region, subimage_.resolution[1],
                           subimage_.resolution[2]))

\* crop.get_relative_top_left(), crop.subimage being subimage_
get_relative_top_left(crop, subimage_) ==
    LET y == subimage_.pixel_region.top - crop.pixel_region.top
    IN  <<crop.pixel_region.left, y>>

(***************************************************************************)
(* Outcomes of a call: a returned value or a raised exception.  random.     *)
(* randint(a, b) raises ValueError on an empty range and otherwise returns  *)
(* any integer of a..b.                                                     *)
(***************************************************************************)
SubtaskTooSmall == "Subtask is too small for reliable verification"

ValueError == "ValueError"

Raise(error) == [raised |-> TRUE, error |-> error]

Return(value) == [raised |-> FALSE, value |-> value]

\* _get_random_interval_within_boundaries without the one-pixel margins
get_random_interval_no_margin(begin, end, interval_length) ==
    LET max_possible_interval_end == end - interval_length
    IN  IF max_possible_interval_end < 0 THEN {Raise(SubtaskTooSmall)}
        ELSE IF begin > max_possible_interval_end THEN {Raise(ValueError)}
        ELSE {Return(<<interval_begin, interval_begin + interval_length>>) :
                 interval_begin \in begin .. max_possible_interval_end}

\* the set of outcomes of _get_random_interval_within_boundaries
get_random_interval_within_boundaries(begin, end, interval_length) ==
    LET end_  == end - 1
        begin_ == begin + 1
        max_possible_interval_end == end_ - interval_length
    IN  IF max_possible_interval_end < 0 THEN {Raise(SubtaskTooSmall)}
        ELSE IF begin_ > max_possible_interval_end THEN {Raise(ValueError)}
        ELSE {Return(<<interval_begin, interval_begin + interval_length>>) :
                 interval_begin \in begin_ .. max_possible_interval_end}

\* the set of outcomes of generate_single_random_crop_data_old
generate_single_random_crop_data_old(subimage_, crop_size_px_) ==
    LET horizontal == get_random_interval_within_boundaries(
                          subimage_.pixel_region.left,
                          subimage_.pixel_region.right, crop_size_px_[1])
        vertical   == get_random_interval_within_boundaries(
                          subimage_.pixel_region.bottom,
                          subimage_.pixel_region.top, crop_size_px_[2])
    IN  IF \E o \in horizontal : o.raised THEN horizontal
        ELSE IF \E o \in vertical : o.raised THEN vertical
        ELSE {Return(create_from_pixel_region(
                         PixelRegion(x.value[1], y.value[2], x.value[2], y.value[1]),
                         subimage_)) : x \in horizontal, y \in vertical}

(***************************************************************************)
(* The fraction-space sampler generate_single_random_crop_data.             *)
(***************************************************************************)
\* the loop condition with the comparison turned around
NeedsGrowthReversed(relative_crop_size, side) ==
    FLt(Eight, DMul(relative_crop_size, FromInt(side)))

\* the loop condition  relative_crop_size * subimage.resolution[i] < 8
NeedsGrowth(relative_crop_size, side) ==
    FLt(DMul(relative_crop_size, FromInt(side)), Eight)

\* relative_crop_size += 0.01
Grow(relative_crop_size) == DAdd(relative_crop_size, PyFloat(1))

\* RandomMin with the two bounds of the scene taken for each other
RandomMinSwapped(scene_min, scene_max, relative_crop_size) ==
    LET difference == PyRound2(DMul(DSub(scene_min, relative_crop_size), Hundred))
        a          == Trunc(DMul(scene_max, Hundred))
        b          == Trunc(difference)
    IN  IF a > b THEN {Raise(ValueError)}
        ELSE {Return(PyFloat(k)) : k \in a .. b}

\* the outcomes of
\*   difference = round((scene_max - relative_crop_size) * 100, 2)
\*   random.randint(int(scene_min * 100), int(difference)) / 100
RandomMin(scene_min, scene_max, relative_crop_size) ==
    LET difference == PyRound2(DMul(DSub(scene_max, relative_crop_size), Hundred))
        a          == Trunc(DMul(scene_min, Hundred))
        b          == Trunc(difference)
    IN  IF a > b THEN {Raise(ValueError)}
        ELSE {Return(PyFloat(k)) : k \in a .. b}

\* round(min + relative_crop_size, 2)
MaxOf(min, relative_crop_size) == PyRound2(DAdd(min, relative_crop_size))

\* math.floor(numpy.float32(side) * numpy.float32(value))
FloorScaled(value, side) == Floor(F32Mul(F32(FromInt(side)), F32(value)))

\* x_min, x_max and the pixel columns computed from them
Horizontal(subimage_, x_min, size_x) ==
    LET crop_scene_x_min == subimage_.region.left
        x_max == MaxOf(x_min, size_x)
    IN  [x_min       |-> x_min,
         x_max       |-> x_max,
         x_pixel_min |-> FloorScaled(x_min, subimage_.resolution[1])
                         - FloorScaled(crop_scene_x_min, subimage_.resolution[1]),
         x_pixel_max |-> FloorScaled(x_max, subimage_.resolution[1])]

\* y_min, y_max and the pixel rows computed from them
Vertical(subimage_, y_min, size_y) ==
    LET crop_scene_y_max == subimage_.region.bottom
        y_max == MaxOf(y_min, size_y)
    IN  [y_min       |-> y_min,
         y_max       |-> y_max,
         y_pixel_max |-> FloorScaled(crop_scene_y_max, subimage_.resolution[2])
                         - FloorScaled(y_max, subimage_.resolution[2]),
         y_pixel_min |-> FloorScaled(crop_scene_y_max, subimage_.resolution[2])
                         - FloorScaled(y_min, subimage_.resolution[2])]

\* Crop(id_, subimage, pixel_region=PixelRegion(left=x_pixel_min,
\* right=x_pixel_max, top=y_pixel_max, bottom=y_pixel_min),
\* crop_region=Region(left=x_min, right=x_max, top=y_min, bottom=y_max))
PlacedCrop(h, v) ==
    Crop(PixelRegion(h.x_pixel_min, v.y_pixel_max, h.x_pixel_max, v.y_pixel_min),
         Region(h.x_min, v.y_min, h.x_max, v.y_max))

\* the outcomes of the sampler once the relative sizes are settled
PlaceCrop(subimage_, size_x, size_y) ==
    LET crop_scene_x_max == subimage_.region.right
        crop_scene_x_min == subimage_.region.left
        crop_scene_y_max == subimage_.region.bottom
        crop_scene_y_min == subimage_.region.top
        xs == RandomMin(crop_scene_x_min, crop_scene_x_max, size_x)
        ys == RandomMin(crop_scene_y_min, crop_scene_y_max, size_y)
    IN  IF \E o \in xs : o.raised THEN xs
        ELSE IF \E o \in ys : o.raised THEN ys
        ELSE LET hs == {Horizontal(subimage_, o.value, size_x) : o \in xs}
                 vs == {Vertical(subimage_, o.value, size_y) : o \in ys}
             IN  {Return(PlacedCrop(h, v)) : h \in hs, v \in vs}

(***************************************************************************)
(* Inputs.                                                                  *)
(***************************************************************************)
\* region coordinates, in hundredths
Hundredths == {0, 29, 50, 100}

Regions ==
    {Region(PyFloat(l), PyFloat(t), PyFloat(r), PyFloat(b)) :
        l \in Hundredths, t \in Hundredths, r \in Hundredths, b \in Hundredths}

\* region {left 0.0, top 1.0, right 0.5, bottom 0.5}
HalfRegion == Region(PyFloat(0), PyFloat(100), PyFloat(50), PyFloat(50))

\* region {left 0.0, top 0.0, right 0.5, bottom 1.0}: at (20, 100) its pixel
\* region is {left 0, top 100, right 10, bottom 0}
NarrowRegion == Region(PyFloat(0), PyFloat(0), PyFloat(50), PyFloat(100))

\* region {left 0.29, top 0.0, right 1.0, bottom 1.0}: at (50, 20) its pixel
\* region is {left 15, top 20, right 50, bottom 0}
OffsetRegion == Region(PyFloat(29), PyFloat(0), PyFloat(100), PyFloat(100))

\* the whole frame, with top below bottom and with top above bottom
FullRegions ==
    {Region(PyFloat(0), PyFloat(0), PyFloat(100), PyFloat(100)),
     Region(PyFloat(0), PyFloat(100), PyFloat(100), PyFloat(0))}

\* pairs of a region and a resolution
Inputs ==
    (Regions \X {<<20, 20>>})
    \cup {<<HalfRegion, <<800, 600>>>>, <<NarrowRegion, <<20, 100>>>>,
          <<NarrowRegion, <<2, 100>>>>, <<OffsetRegion, <<50, 20>>>>}
    \cup (FullRegions \X {<<0, 100>>})

CropSizes == {<<8, 8>>, <<20, 5>>}

\* the growth loops are followed up to this relative size
MaxRelativeSize == 5

(***************************************************************************)
(* The state machine: a SubImage is constructed, then one of the samplers   *)
(* is called on it.                                                         *)
(***************************************************************************)
VARIABLES
    pc,                      \* position of the caller and of the sampler
    subimage,                \* the SubImage constructed
    call,                    \* the sampler called: "old" or "new"
    crop_size_px,            \* a crop size in pixels: the legacy sampler's
                             \* argument or the result of get_default_crop_size
    relative_crop_size_x,    \* locals of generate_single_random_crop_data
    relative_crop_size_y,
    outcome,                 \* the Crop returned or the exception raised
    top_left,                \* the result of get_relative_top_left
    borders                  \* the result of calculate_borders

vars == <<pc, subimage, call, crop_size_px, relative_crop_size_x,
          relative_crop_size_y, outcome, top_left, borders>>

None == "None"

Init ==
    /\ pc = "new"
    /\ subimage = None
    /\ call = None
    /\ crop_size_px = None
    /\ relative_crop_size_x = None
    /\ relative_crop_size_y = None
    /\ outcome = None
    /\ top_left = None
    /\ borders = None

\* SubImage(region, resolution)
NewSubImage(region, resolution) ==
    /\ pc = "new"
    /\ subimage' = SubImage(region, resolution)
    /\ pc' = "ready"
    /\ UNCHANGED <<call, crop_size_px, relative_crop_size_x,
                   relative_crop_size_y, outcome,
                   top_left, borders>>

\* generate_single_random_crop_data_old(subimage, crop_size_px, id_)
GenerateOld(size) ==
    /\ pc = "ready"
    /\ call' = "old"
    /\ crop_size_px' = size
    /\ outcome' \in generate_single_random_crop_data_old(subimage, size)
    /\ pc' = "done"
    /\ UNCHANGED <<subimage, relative_crop_size_x, relative_crop_size_y,
                   top_left, borders>>

\* generate_single_random_crop_data(subimage, id_): entry
GenerateBegin ==
    /\ pc = "ready"
    /\ call' = "new"
    /\ relative_crop_size_x' = PyFloat(10)
    /\ relative_crop_size_y' = PyFloat(10)
    /\ pc' = "grow_x"
    /\ UNCHANGED <<subimage, crop_size_px, outcome,
                   top_left, borders>>

\* one test of  while relative_crop_size_x * subimage.resolution[0] < 8
GrowX ==
    /\ pc = "grow_x"
    /\ IF NeedsGrowth(relative_crop_size_x, subimage.resolution[1])
       THEN /\ FLt(relative_crop_size_x, FromInt(MaxRelativeSize))
            /\ relative_crop_size_x' = Grow(relative_crop_size_x)
            /\ pc' = pc
       ELSE /\ relative_crop_size_x' = relative_crop_size_x
            /\ pc' = "grow_y"
    /\ UNCHANGED <<subimage, call, crop_size_px, relative_crop_size_y, outcome,
                   top_left, borders>>

\* one test of  while relative_crop_size_y * subimage.resolution[1] < 8
GrowY ==
    /\ pc = "grow_y"
    /\ IF NeedsGrowth(relative_crop_size_y, subimage.resolution[2])
       THEN /\ FLt(relative_crop_size_y, FromInt(MaxRelativeSize))
            /\ relative_crop_size_y' = Grow(relative_crop_size_y)
            /\ pc' = pc
       ELSE /\ relative_crop_size_y' = relative_crop_size_y
            /\ pc' = "place"
    /\ UNCHANGED <<subimage, call, crop_size_px, relative_crop_size_x, outcome,
                   top_left, borders>>

\* the rest of generate_single_random_crop_data
Place ==
    /\ pc = "place"
    /\ outcome' \in PlaceCrop(subimage, relative_crop_size_x, relative_crop_size_y)
    /\ pc' = "done"
    /\ UNCHANGED <<subimage, call, crop_size_px, relative_crop_size_x,
                   relative_crop_size_y,
                   top_left, borders>>

\* crop.get_relative_top_left() for the Crop returned
GetRelativeTopLeft ==
    /\ pc = "done"
    /\ ~outcome.raised
    /\ top_left' = get_relative_top_left(outcome.value, subimage)
    /\ pc' = "located"
    /\ UNCHANGED <<subimage, call, crop_size_px, relative_crop_size_x,
                   relative_crop_size_y, outcome, borders>>

\* Crop.calculate_borders(subimage.pixel_region, width, height) for the
\* resolution (width, height) of the subimage
CalculateBorders ==
    /\ pc = "ready"
    /\ borders' = calculate_borders(subimage.pixel_region,
                                    subimage.resolution[1], subimage.resolution[2])
    /\ pc' = "borders"
    /\ UNCHANGED <<subimage, call, crop_size_px, relative_crop_size_x,
                   relative_crop_size_y, outcome, top_left>>

\* subimage.get_default_crop_size()
GetDefaultCropSize ==
    /\ pc = "ready"
    /\ crop_size_px' = get_default_crop_size(subimage)
    /\ pc' = "sized"
    /\ UNCHANGED <<subimage, call, relative_crop_size_x, relative_crop_size_y,
                   outcome, top_left, borders>>

Next ==
    \/ \E input \in Inputs : NewSubImage(input[1], input[2])
    \/ \E size \in CropSizes : GenerateOld(size)
    \/ GenerateBegin
    \/ GrowX
    \/ GrowY
    \/ Place
    \/ GetRelativeTopLeft
    \/ CalculateBorders
    \/ GetDefaultCropSize

Spec == Init /\ [][Next]_vars

(***************************************************************************)
(* Properties.                                                              *)
(***************************************************************************)
Constructed == pc # "new"

Returned(sampler) == pc = "done" /\ call = sampler /\ ~outcome.raised

PositiveResolution == subimage.resolution[1] > 0 /\ subimage.resolution[2] > 0

Half == F32(PyFloat(50))

\* floor(value * side + 0.5) in single precision
FloorHalf(value, side) ==
    Floor(F32Add(F32Mul(F32(value), F32(FromInt(side))), Half))

\* n lies within 1/1024 of floor(x + 0.5), x the exact product value * side
NearFloorHalf(n, value, side) ==
    LET x   == FAddExact(FMulExact(value, FromInt(side)), Half)
        eps == [neg |-> FALSE, m |-> <<1>>, e |-> -10]
    IN  /\ FLe(FromInt(n), FAddExact(x, eps))
        /\ FLt(FSubExact(x, eps), FromInt(n + 1))

\* C1: the pixel region of a SubImage is left = floor(region.left * width +
\* 0.5), right = floor(region.right * width + 0.5), top = floor(region.bottom
\* * height + 0.5), bottom = floor(region.top * height + 0.5): top comes from
\* the fraction bottom, bottom from the fraction top; region {left 0.0, top
\* 1.0, right 0.5, bottom 0.5} at (800, 600) gives {left 0, top 300, right
\* 400, bottom 600}.
C1_PixelsFromRegion ==
    pc = "ready" =>
        LET r == subimage.region
            p == subimage.pixel_region
            w == subimage.resolution[1]
            h == subimage.resolution[2]
        IN  /\ p.left = FloorHalf(r.left, w)
            /\ p.right = FloorHalf(r.right, w)
            /\ p.top = FloorHalf(r.bottom, h)
            /\ p.bottom = FloorHalf(r.top, h)
            /\ NearFloorHalf(p.left, r.left, w)
            /\ NearFloorHalf(p.right, r.right, w)
            /\ NearFloorHalf(p.top, r.bottom, h)
            /\ NearFloorHalf(p.bottom, r.top, h)
            /\ (r = HalfRegion /\ subimage.resolution = <<800, 600>>
                    => p = PixelRegion(0, 300, 400, 600))

C1_Witness ==
    /\ pc = "ready"
    /\ subimage.region = HalfRegion
    /\ subimage.resolution = <<800, 600>>
    /\ subimage.pixel_region = PixelRegion(0, 300, 400, 600)

\* 0 <= left < right <= 1 and 0 <= bottom < top <= 1
WellFormed(region) ==
    /\ FLe(FZero, region.left)
    /\ FLt(region.left, region.right)
    /\ FLe(region.right, FromInt(1))
    /\ FLe(FZero, region.bottom)
    /\ FLt(region.bottom, region.top)
    /\ FLe(region.top, FromInt(1))

WellFormedTopFirst(region) ==
    /\ FLe(FZero, region.left)
    /\ FLt(region.left, region.right)
    /\ FLe(region.right, FromInt(1))
    /\ FLe(FZero, region.top)
    /\ FLt(region.top, region.bottom)
    /\ FLe(region.bottom, FromInt(1))

TooSmall(low, high, length) == high - 1 - length < low + 1

\* C3: the legacy sampler raises the 'Subtask is too small for reliable
\* verification' exception, and no other error, whenever high - 1 - length <
\* low + 1 on the X axis (left, right, w) or on the Y axis (bottom, top, h).
C3_TooSmallRaises ==
    (pc = "done" /\ call = "old"
        /\ (\/ TooSmall(subimage.pixel_region.left, subimage.pixel_region.right,
                        crop_size_px[1])
            \/ TooSmall(subimage.pixel_region.bottom, subimage.pixel_region.top,
                        crop_size_px[2])))
    => outcome = Raise(SubtaskTooSmall)

\* C4: a Crop returned by the legacy sampler for crop size (w, h) lies inside
\* the subimage's pixel region with a one-pixel margin and has the requested
\* size.
C4_LegacyCropInside ==
    Returned("old") =>
        LET c == outcome.value.pixel_region
            s == subimage.pixel_region
        IN  /\ s.left + 1 <= c.left
            /\ c.right = c.left + crop_size_px[1]
            /\ c.right <= s.right - 1
            /\ s.bottom + 1 <= c.bottom
            /\ c.top = c.bottom + crop_size_px[2]
            /\ c.top <= s.top - 1

C4_Witness ==
    /\ Returned("old")
    /\ subimage.pixel_region.left > 0
    /\ outcome.value.pixel_region.left = subimage.pixel_region.left + 1
    /\ outcome.value.pixel_region.top = subimage.pixel_region.top - 1

\* right - left >= relative_crop_size_x and top - bottom >= relative_crop_size_y
LargeEnough ==
    /\ FLe(relative_crop_size_x,
           FSubExact(subimage.region.right, subimage.region.left))
    /\ FLe(relative_crop_size_y,
           FSubExact(subimage.region.top, subimage.region.bottom))

GrowthBounded(relative_crop_size, side) ==
    \/ relative_crop_size = PyFloat(10)
    \/ FLt(FMulExact(relative_crop_size, FromInt(side)),
           FAddExact(Eight, FMulExact(PyFloat(2), FromInt(side))))

\* right - left >= relative_crop_size_x and bottom - top >= relative_crop_size_y
LargeEnoughTopFirst ==
    /\ FLe(relative_crop_size_x,
           FSubExact(subimage.region.right, subimage.region.left))
    /\ FLe(relative_crop_size_y,
           FSubExact(subimage.region.bottom, subimage.region.top))

C6_PixelsRelative ==
    Returned("new") =>
        LET c == outcome.value
            w == subimage.resolution[1]
        IN  c.pixel_region.right - c.pixel_region.left
                = FloorScaled(c.crop_region.right, w)
                  - FloorScaled(c.crop_region.left, w)

\* C7: the chosen x_min is a multiple of 0.01 with region.left <= x_min,
\* x_max = round(x_min + relative_size_x, 2), and likewise y_min and y_max
\* with the bounds (region.bottom, region.top); the crop region (left x_min,
\* right x_max, top y_min, bottom y_max) does not extend beyond the subimage's
\* region.
C7_CropRegionInside ==
    Returned("new") =>
        LET c == outcome.value.crop_region
        IN  /\ PyRound2(c.left) = c.left
            /\ FLe(subimage.region.left, c.left)
            /\ c.right = PyRound2(DAdd(c.left, relative_crop_size_x))
            /\ FLe(c.right, subimage.region.right)
            /\ PyRound2(c.top) = c.top
            /\ FLe(subimage.region.bottom, c.top)
            /\ c.bottom = PyRound2(DAdd(c.top, relative_crop_size_y))
            /\ FLe(c.bottom, subimage.region.top)

\* zero or negative resolution, right < left, or top < bottom
Malformed ==
    \/ subimage.resolution[1] <= 0
    \/ subimage.resolution[2] <= 0
    \/ FLt(subimage.region.right, subimage.region.left)
    \/ FLt(subimage.region.top, subimage.region.bottom)

\* right >= left and top - bottom >= 0
NonNegativeSize(pixel_region) ==
    /\ pixel_region.right >= pixel_region.left
    /\ pixel_region.top - pixel_region.bottom >= 0

\* C8: a malformed input never yields a SubImage with a negative width or
\* height, nor a Crop whose pixel region has a negative size.
C8_NoNegativeSize ==
    (Constructed /\ Malformed) =>
        /\ subimage.width >= 0
        /\ subimage.height >= 0
        /\ (pc = "done" /\ ~outcome.raised
                => NonNegativeSize(outcome.value.pixel_region))

\* C9: every Crop returned by either sampler has a pixel region with right >=
\* left and top - bottom >= 0.
C9_CropPixelRegion ==
    (pc = "done" /\ ~outcome.raised) => NonNegativeSize(outcome.value.pixel_region)

\* relative_crop_size in hundredths, to the nearest
InHundredths(relative_crop_size) ==
    RoundToInt(FMulExact(relative_crop_size, Hundred))

\* the relative size meets its bound and is the first of the decimals 0.1,
\* 0.11, 0.12, ... to meet it: n / 100 with n the least of 10, 11, 12, ...
\* such that n / 100 * side >= 8
Settled(relative_crop_size, side) ==
    LET n == InHundredths(relative_crop_size)
    IN  /\ FLe(Eight, DMul(relative_crop_size, FromInt(side)))
        /\ n >= 10
        /\ n * side >= 800
        /\ (n = 10 \/ (n - 1) * side < 800)

\* C10: after the size adaptation, relative_size_x * width >= 8 and
\* relative_size_y * height >= 8 for a resolution with positive width and
\* height, each relative size being the first value of 0.1, 0.11, 0.12, ...
\* that meets its bound.
C10_SizeAdapted ==
    (pc = "place" /\ PositiveResolution) =>
        /\ Settled(relative_crop_size_x, subimage.resolution[1])
        /\ Settled(relative_crop_size_y, subimage.resolution[2])

\* relative_crop_size after k more executions of  relative_crop_size += 0.01
RECURSIVE GrowTimes(_, _)
GrowTimes(relative_crop_size, k) ==
    IF k = 0 THEN relative_crop_size
    ELSE LET next == Grow(relative_crop_size)
         IN  IF next.neg THEN next ELSE GrowTimes(next, k - 1)

\* 0.1 after k executions of  relative_crop_size += 0.01
RunningSum(k) == GrowTimes(PyFloat(10), k)

\* the relative size is a running sum that meets its bound, and the running
\* sum before it does not
SettledSum(relative_crop_size, side) ==
    LET k    == InHundredths(relative_crop_size) - 10
        prev == IF k > 0 THEN RunningSum(k - 1) ELSE FZero
    IN  /\ k >= 0
        /\ relative_crop_size = (IF k = 0 THEN PyFloat(10) ELSE Grow(prev))
        /\ FLe(Eight, DMul(relative_crop_size, FromInt(side)))
        /\ (k > 0 => FLt(DMul(prev, FromInt(side)), Eight))

\* C10 as amended: after the size adaptation, relative_size_x * width >= 8
\* and relative_size_y * height >= 8 for a resolution with positive width and
\* height, each relative size being the first of the double-precision running
\* sums 0.1, 0.1 + 0.01, (0.1 + 0.01) + 0.01, ... that meets its bound.
C10_SizeAdaptedSums ==
    (pc = "place" /\ PositiveResolution) =>
        /\ SettledSum(relative_crop_size_x, subimage.resolution[1])
        /\ SettledSum(relative_crop_size_y, subimage.resolution[2])

\* width 2: the running sums pass 4.0 by rounding and settle one step later
C10_Witness ==
    /\ pc = "place"
    /\ subimage.resolution = <<2, 100>>
    /\ InHundredths(relative_crop_size_x) = 401
    /\ relative_crop_size_y = PyFloat(10)

\* C11: get_relative_top_left returns (pixel_region.left, subimage.
\* pixel_region.top - pixel_region.top), and for a Crop of the legacy sampler
\* with crop size (w, h) this offset lies inside the subtask's own buffer:
\* 0 <= x, x + w <= subimage.width, 0 <= y, y + h <= subimage.height.
C11_TopLeftInside ==
    (pc = "located" /\ call = "old") =>
        LET x == top_left[1]
            y == top_left[2]
        IN  /\ x = outcome.value.pixel_region.left
            /\ y = subimage.pixel_region.top - outcome.value.pixel_region.top
            /\ 0 <= x
            /\ x + crop_size_px[1] <= subimage.width
            /\ 0 <= y
            /\ y + crop_size_px[2] <= subimage.height

\* every coordinate of the region lies in [0, 1]
InUnitSquare(region) ==
    \A v \in {region.left, region.top, region.right, region.bottom} :
        FLe(FZero, v) /\ FLe(v, FromInt(1))

\* |x|
FAbs(x) == [x EXCEPT !.neg = FALSE]

\* |a - b| <= 1 / side
WithinPixel(a, b, side) ==
    FLe(FMulExact(FAbs(FSubExact(a, b)), FromInt(side)), FromInt(1))

\* C12: for a region r with coordinates in [0, 1] and width, height > 0,
\* calculate_borders(calculate_pixels(r, w, h), w, h) differs from r by at
\* most 1 / w on left and right and by at most 1 / h on top and bottom.
C12_RoundTripBound ==
    (pc = "borders" /\ PositiveResolution /\ InUnitSquare(subimage.region)) =>
        LET r == subimage.region
            w == subimage.resolution[1]
            h == subimage.resolution[2]
        IN  /\ WithinPixel(borders.left, r.left, w)
            /\ WithinPixel(borders.right, r.right, w)
            /\ WithinPixel(borders.top, r.top, h)
            /\ WithinPixel(borders.bottom, r.bottom, h)

\* 2^-20: sixteen units of single-precision rounding
Rounding == [neg |-> FALSE, m |-> <<1>>, e |-> -20]

\* |a - b| <= 1 / side + 2^-20
WithinPixelRounded(a, b, side) ==
    FLe(FMulExact(FAbs(FSubExact(a, b)), FromInt(side)),
        FAddExact(FromInt(1), FMulExact(Rounding, FromInt(side))))

\* C12 as amended: for a region r with coordinates in [0, 1] and width, height
\* > 0, calculate_borders(calculate_pixels(r, w, h), w, h) differs from r by
\* at most 1 / w + 2^-20 on left and right and by at most 1 / h + 2^-20 on top
\* and bottom, top mapping back to top and bottom to bottom.
C12_RoundTripRounded ==
    (pc = "borders" /\ PositiveResolution /\ InUnitSquare(subimage.region)) =>
        LET r == subimage.region
            w == subimage.resolution[1]
            h == subimage.resolution[2]
        IN  /\ WithinPixelRounded(borders.left, r.left, w)
            /\ WithinPixelRounded(borders.right, r.right, w)
            /\ WithinPixelRounded(borders.top, r.top, h)
            /\ WithinPixelRounded(borders.bottom, r.bottom, h)

\* left = 0.29 at width 50: the pixel is 15 and the border 0.31 in single
\* precision, more than 1 / 50 above 0.29
C12_Witness ==
    /\ pc = "borders"
    /\ subimage.region = OffsetRegion
    /\ subimage.resolution = <<50, 20>>
    /\ subimage.pixel_region.left = 15
    /\ ~WithinPixel(borders.left, subimage.region.left, 50)
    /\ WithinPixelRounded(borders.left, subimage.region.left, 50)

\* max(8, floor(0.1 * side)), the product in double precision
DefaultSide(side) ==
    LET length == Floor(DMul(PyFloat(10), FromInt(side)))
    IN  IF length > 8 THEN length ELSE 8

\* C13: get_default_crop_size returns (max(8, floor(0.1 * width)), max(8,
\* floor(0.1 * height))) for the subimage's pixel width and height, both
\* components being >= 8 for width, height >= 0, and (8, 8) for a subimage of
\* width 0 and height 0.
C13_DefaultCropSize ==
    (pc = "sized" /\ subimage.width >= 0 /\ subimage.height >= 0) =>
        /\ crop_size_px = <<DefaultSide(subimage.width), DefaultSide(subimage.height)>>
        /\ crop_size_px[1] >= 8
        /\ crop_size_px[2] >= 8
        /\ crop_size_px[1] >= subimage.width \div 10
        /\ crop_size_px[2] >= subimage.height \div 10
        /\ (subimage.width = 0 /\ subimage.height = 0 => crop_size_px = <<8, 8>>)

C13_Witness ==
    /\ pc = "sized"
    /\ subimage.width = 0
    /\ subimage.height = 100
    /\ crop_size_px = <<8, 10>>

=============================================================================
